---- MODULE Spec2Model ----
(***************************************************************************)
(* Digital lock: the keypad scanner (getKeypadInput) and the four-mode     *)
(* PIN state machine of main(), in its two variants: the OLED build        *)
(* (src/main.c) and the seven-segment build (src/unnamed/part_000,         *)
(* "main copy 2.c").  The two differ in the output calls and in the shift  *)
(* applied to the sampled keypad lines.                                    *)
(***************************************************************************)
EXTENDS Integers, Sequences, FiniteSets

(***************************************************************************)
(* Bounds of the model.                                                    *)
(***************************************************************************)
\* how many of the ten digit keys the free environment may press
MaxDigits == 2

(***************************************************************************)
(* Program constants.                                                      *)
(***************************************************************************)
MAX_PASSWORD_LENGTH == 4
\* for (i = 0; i < 10; i++) in flashLockedLED
FlashCycles == 10
\* the code on P2.3-P2.6 when nothing drives the lines: the pull-ups of
\* setupGPIO read as 1111
IdleCode == 15

OLED == "oled"
SEVENSEG == "sevenseg"
Variants == {OLED, SEVENSEG}

\* the character '\0': "no key", string terminator, memset filler
NUL == "NUL"

Digits == {"0", "1", "2", "3", "4", "5", "6", "7", "8", "9"}
Keys == Digits \cup {"A", "B", "C", "D", "*", "#"}

\* ASCII codes of the characters the program compares
Ord(c) ==
  CASE c = NUL -> 0
    [] c = "#" -> 35
    [] c = "*" -> 42
    [] c = "0" -> 48 [] c = "1" -> 49 [] c = "2" -> 50 [] c = "3" -> 51
    [] c = "4" -> 52 [] c = "5" -> 53 [] c = "6" -> 54 [] c = "7" -> 55
    [] c = "8" -> 56 [] c = "9" -> 57
    [] c = "A" -> 65 [] c = "B" -> 66 [] c = "C" -> 67 [] c = "D" -> 68

(***************************************************************************)
(* The keypad scanner.                                                     *)
(***************************************************************************)
\* the shift by 2 in both builds
ShiftByTwo(v) == 2

\* the shift of the variant: >> 3 in main.c, >> 2 in main copy 2.c
Shift(v) == IF v = OLED THEN 3 ELSE 2

\* P2IN & (BIT3 | BIT4 | BIT5 | BIT6), P2IN an 8-bit port value
MaskKeypad(P2IN) == ((P2IN \div 8) % 16) * 8

\* unsigned char bcd = (P2IN & (BIT3|BIT4|BIT5|BIT6)) >> shift
ReadBcd(P2IN, v) == (MaskKeypad(P2IN) \div (2 ^ Shift(v))) % 256

\* the switch taken on the low four bits of bcd, so that no code reaches default
DecodeWrapped(bcd) ==
  <<"1", "2", "3", "A", "4", "5", "6", "B",
    "7", "8", "9", "C", "*", "0", "#", "D">>[(bcd % 16) + 1]

\* switch (bcd) { ... default: key = 0; }
Decode(bcd) ==
  CASE bcd = 0 -> "1"  [] bcd = 1 -> "2"  [] bcd = 2 -> "3"  [] bcd = 3 -> "A"
    [] bcd = 4 -> "4"  [] bcd = 5 -> "5"  [] bcd = 6 -> "6"  [] bcd = 7 -> "B"
    [] bcd = 8 -> "7"  [] bcd = 9 -> "8"  [] bcd = 10 -> "9" [] bcd = 11 -> "C"
    [] bcd = 12 -> "*" [] bcd = 13 -> "0" [] bcd = 14 -> "#" [] bcd = 15 -> "D"
    [] OTHER -> NUL

\* a scanner that leaves lastKey alone when the code decodes to no key
getKeypadInputKeepReported(P2IN, last, v) ==
  LET k == Decode(ReadBcd(P2IN, v))
  IN  IF k = last \/ k = NUL THEN [ret |-> NUL, lastKey |-> last]
                             ELSE [ret |-> k, lastKey |-> k]

\* a scanner with the repeat suppression left out
getKeypadInputNoSuppress(P2IN, last, v) ==
  [ret |-> Decode(ReadBcd(P2IN, v)), lastKey |-> Decode(ReadBcd(P2IN, v))]

\* char getKeypadInput(): the value returned and the static lastKey afterwards
getKeypadInput(P2IN, last, v) ==
  LET k == Decode(ReadBcd(P2IN, v))
  IN  IF k = last THEN [ret |-> NUL, lastKey |-> last]
                  ELSE [ret |-> k, lastKey |-> k]

(***************************************************************************)
(* C strings in the two 5-byte arrays.                                     *)
(***************************************************************************)
Cells == 0..MAX_PASSWORD_LENGTH

\* storedPassword without its initializer: zeroed static storage
DefaultPasswordUnset == [c \in Cells |-> NUL]

\* char storedPassword[MAX_PASSWORD_LENGTH + 1] = "0000"
DefaultPassword == [c \in Cells |-> IF c < MAX_PASSWORD_LENGTH THEN "0" ELSE NUL]

\* memset(enteredPassword, 0, sizeof(enteredPassword)), also its initializer {0}
Zeroed == [c \in Cells |-> NUL]

\* strlen within the array; MAX_PASSWORD_LENGTH + 1 when no terminator is in it
strlen(s) ==
  IF \E c \in Cells : s[c] = NUL
  THEN CHOOSE c \in Cells : s[c] = NUL /\ \A d \in 0..(c - 1) : s[d] # NUL
  ELSE MAX_PASSWORD_LENGTH + 1

\* the characters of the C string in s, as a sequence
CStr(s) == [n \in 1..strlen(s) |-> s[n - 1]]

\* strcmp(a, b) == 0
StrEqual(a, b) == CStr(a) = CStr(b)

\* the arguments swapped: the destination is left as it was
strcpySwapped(dst, src) == dst

\* strcpy(dst, src): the bytes of src up to and including its terminator
strcpy(dst, src) == [c \in Cells |-> IF c <= strlen(src) THEN src[c] ELSE dst[c]]

\* the lower bound forgotten
IsDigitNoLowerBound(k) == Ord(k) <= Ord("9")

\* key >= '0' && key <= '9'
IsDigit(k) == Ord(k) >= Ord("0") /\ Ord(k) <= Ord("9")

(***************************************************************************)
(* Output calls.  A call is recorded with the name of the function main()  *)
(* calls and with what it puts on the display.                             *)
(***************************************************************************)
\* displayMessage(msg): snprintf(buffer, ..., "%s ", msg), printed as a block
displayMessage(msg) == [call |-> "displayMessage", text |-> msg \o <<" ">>]

\* the digits copied right aligned into displayBuffer
SevenSegDigitsRightAligned(digits) ==
  LET len == strlen(digits)
      displayBuffer == [p \in 0..3 |-> IF p >= 4 - len THEN digits[p - (4 - len)] ELSE "0"]
  IN  [n \in 1..4 |->
         IF IsDigit(displayBuffer[n - 1])
         THEN Ord(displayBuffer[n - 1]) - Ord("0") ELSE 0]

\* the digit values updateDisplay(digits) writes to P6OUT, position 0 to 3
SevenSegDigits(digits) ==
  LET len == strlen(digits)
      displayBuffer == [p \in 0..3 |-> IF p < len THEN digits[p] ELSE "0"]
  IN  [n \in 1..4 |->
         IF IsDigit(displayBuffer[n - 1])
         THEN Ord(displayBuffer[n - 1]) - Ord("0") ELSE 0]

updateDisplay(digits) == [call |-> "updateDisplay", P6OUT |-> SevenSegDigits(digits)]

\* clearDisplay(): updateDisplay("0000")
clearDisplay == [call |-> "clearDisplay", P6OUT |-> <<0, 0, 0, 0>>]

\* displayError(): updateDisplay("8888"), then a delay
displayError == [call |-> "displayError", P6OUT |-> <<8, 8, 8, 8>>]

setLockedLEDOn == [call |-> "setLockedLEDOn"]
setLockedLEDOff == [call |-> "setLockedLEDOff"]
setUnlockedLEDOn == [call |-> "setUnlockedLEDOn"]
setUnlockedLEDOff == [call |-> "setUnlockedLEDOff"]
flashLockedLED == [call |-> "flashLockedLED"]

MsgUnlocked == <<"Unlocked. Press A to set PIN">>
MsgEnterNew == <<"Enter New PIN:">>
MsgLocked == <<"Locked. Press C to enter PIN">>
MsgEnterPin == <<"Enter PIN, then press D">>
MsgWrongPin == <<"Wrong PIN! Press C to try again">>


(***************************************************************************)
(* State.                                                                  *)
(***************************************************************************)
VARIABLES
  variant,          \* which build runs: OLED (main.c) or SEVENSEG (main copy 2.c)
  mode,             \* int mode: 0 unlocked, 1 set PIN, 2 locked, 3 enter PIN
  index,            \* unsigned char index
  enteredPassword,  \* char enteredPassword[5]
  storedPassword,   \* char storedPassword[5]
  lastKey,          \* static char lastKey of getKeypadInput
  bcd,              \* the code sampled by the latest call of getKeypadInput
  key,              \* char key of the loop body: the latest value getKeypadInput returned
  P1OUT,            \* the indicator bits of P1OUT that are set (OLED build)
  i,                \* loop counter of flashLockedLED
  phase,            \* 0 before the first toggle of an iteration, 1 before the second
  pc,               \* "poll": at getKeypadInput; "handle": in if (key) { ... };
                    \* "fail": after the failure output of a wrong PIN
  out,              \* the output calls made since the latest poll (at start: by main's set-up)
  script,           \* environment: the keys the user presses in order; << >>: any key, any time
  press,            \* environment: position in script of the key pressed at the latest poll
  scen,             \* history: how many key events reached the controller while they
                    \* were exactly a prefix of Scenario; -1 once they were not
  reported,         \* history: the key the scanner reported last, NUL before any
  gap,              \* history: a poll returned no key since the latest report
  again,            \* history: the latest poll reported the same key as the report before it
  fed               \* history: the first MAX_PASSWORD_LENGTH digit keys handled since
                    \* the entry began

ctl == <<mode, index, enteredPassword, storedPassword>>
scanner == <<lastKey, bcd, reported, gap, again>>
flash == <<i, phase>>
env == <<script, press>>
vars == <<variant, mode, index, enteredPassword, storedPassword, lastKey, bcd, key,
          P1OUT, i, phase, pc, out, script, press, scen, reported, gap, again, fed>>

\* no code has been sampled yet
NoSample == -1

\* the spec's names for the controller's data
StoredPin == CStr(storedPassword)
EntryBuffer == [n \in 1..index |-> enteredPassword[n - 1]]

\* the end-to-end scenario of the specification, section 8
Scenario == <<"A", "1", "2", "3", "4", "B", "C", "9", "9", "9", "9", "D",
              "C", "1", "2", "3", "4", "D">>

(***************************************************************************)
(* Initial state: main() up to the while loop.                             *)
(***************************************************************************)
InitOut(v) ==
  IF v = OLED
  THEN <<displayMessage(MsgUnlocked), setLockedLEDOff, setUnlockedLEDOn>>
  ELSE <<updateDisplay(DefaultPassword)>>

InitCommon ==
  /\ variant \in Variants
  /\ mode = 0
  /\ index = 0
  /\ enteredPassword = Zeroed
  /\ storedPassword = DefaultPassword
  /\ lastKey = NUL
  /\ bcd = NoSample
  /\ key = NUL
  /\ P1OUT = IF variant = OLED THEN {"BIT5"} ELSE {}
  /\ i = 0
  /\ phase = 0
  /\ pc = "poll"
  /\ out = InitOut(variant)
  /\ press = 0
  /\ scen = 0
  /\ reported = NUL
  /\ gap = FALSE
  /\ again = FALSE
  /\ fed = << >>

Init == InitCommon /\ script = << >>

InitScenario == InitCommon /\ script = Scenario

(***************************************************************************)
(* The environment: what is on the keypad lines at a poll.                 *)
(***************************************************************************)
\* the code the encoder puts on P2.3-P2.6 for a key: the table of getKeypadInput
KeyCode(k) == CHOOSE c \in 0..15 : Decode(c) = k

\* the digit keys, in the order in which raising MaxDigits adds them
DigitOrder == <<"1", "8", "2", "9", "0", "3", "4", "5", "6", "7">>

\* the keys the free environment presses
PressableKeys ==
  {"A", "B", "C", "D", "*", "#"} \cup {DigitOrder[n] : n \in 1..MaxDigits}

\* the other four bits of P2IN (0, 1, 2 and 7): all clear, all set
OtherBits == {0, 135}

\* the codes of the pressable keys
PressableCodes == {KeyCode(k) : k \in PressableKeys}

\* what the user may do at a poll: [pos: position in script, code: lines P2.3-P2.6]
FreePresses == {[pos |-> 0, code |-> c] : c \in PressableCodes}

\* with a script: the key pressed at the poll before is held, or the next key of
\* the script is pressed, or no key is pressed and the lines are idle
ScriptPresses(s, at) ==
  {[pos |-> p, code |-> KeyCode(s[p])] : p \in {at, at + 1} \cap (1..Len(s))}
    \cup {[pos |-> at, code |-> IdleCode]}

Presses == IF script = << >> THEN FreePresses ELSE ScriptPresses(script, press)

\* the values P2IN may have at a poll
Samples == {[pos |-> e.pos, P2IN |-> e.code * 8 + o] : e \in Presses, o \in OtherBits}

(***************************************************************************)
(* char key = getKeypadInput(); if (key) ...                               *)
(***************************************************************************)
Poll ==
  /\ pc = "poll"
  /\ \E e \in Samples :
       \E r \in {getKeypadInput(e.P2IN, lastKey, variant)} :
         /\ bcd' = ReadBcd(e.P2IN, variant)
         /\ key' = r.ret
         /\ lastKey' = r.lastKey
         /\ pc' = IF r.ret # NUL THEN "handle" ELSE "poll"
         /\ press' = e.pos
         /\ reported' = IF r.ret # NUL THEN r.ret ELSE reported
         /\ gap' = (r.ret = NUL)
         /\ again' = (r.ret # NUL /\ r.ret = reported)
  /\ out' = << >>
  /\ UNCHANGED <<variant, ctl, P1OUT, flash, script, scen, fed>>

\* the values the 8-bit input register P2IN can hold
RawValues == 0..(2 ^ 8 - 1)

\* getKeypadInput called on an arbitrary value of P2IN, the loop body left out:
\* the scanner on its own
PollScan ==
  /\ pc = "poll"
  /\ \E raw \in RawValues :
       \E r \in {getKeypadInput(raw, lastKey, variant)} :
         /\ bcd' = ReadBcd(raw, variant)
         /\ key' = r.ret
         /\ lastKey' = r.lastKey
         /\ reported' = IF r.ret # NUL THEN r.ret ELSE reported
         /\ gap' = (r.ret = NUL)
         /\ again' = (r.ret # NUL /\ r.ret = reported)
  /\ out' = << >>
  /\ UNCHANGED <<variant, ctl, P1OUT, flash, pc, env, scen, fed>>

\* the controller fed with an arbitrary key event: getKeypadInput taken as
\* able to return any key
Deliver ==
  /\ pc = "poll"
  /\ \E k \in PressableKeys : key' = k
  /\ pc' = "handle"
  /\ out' = << >>
  /\ UNCHANGED <<variant, ctl, scanner, P1OUT, flash, env, scen, fed>>

(***************************************************************************)
(* The output calls of each transition, in the order main() makes them.    *)
(***************************************************************************)
\* mode 0, key 'A'
EnterSetOut(v) ==
  IF v = OLED
  THEN <<displayMessage(MsgEnterNew), setLockedLEDOff, setUnlockedLEDOff>>
  ELSE <<clearDisplay>>

\* modes 1 and 3, a digit appended
DigitOut(v, entered) ==
  IF v = OLED THEN <<displayMessage(CStr(entered))>> ELSE <<updateDisplay(entered)>>

\* mode 1, key 'B', four digits entered
LockOut(v, stored) ==
  IF v = OLED
  THEN <<displayMessage(MsgLocked), setLockedLEDOn, setUnlockedLEDOff>>
  ELSE <<updateDisplay(stored)>>

\* mode 2, key 'C'
EnterPinOut(v) ==
  IF v = OLED
  THEN <<displayMessage(MsgEnterPin), setLockedLEDOn, setUnlockedLEDOff>>
  ELSE <<clearDisplay>>

\* mode 3, key 'D', the PINs equal
UnlockOut(v, stored) ==
  IF v = OLED
  THEN <<displayMessage(MsgUnlocked), setLockedLEDOff, setUnlockedLEDOn>>
  ELSE <<updateDisplay(stored)>>

\* the failure display forgotten
FailOutSilent(v) == IF v = OLED THEN <<flashLockedLED>> ELSE << >>

\* mode 3, key 'D', the PINs differ: the failure output ...
FailOut(v) ==
  IF v = OLED THEN <<displayMessage(MsgWrongPin), flashLockedLED>> ELSE <<displayError>>

\* the Locked message printed again after the failure
RelockOutWithMessage(v, stored) ==
  IF v = OLED
  THEN <<displayMessage(MsgLocked), setLockedLEDOn, setUnlockedLEDOff>>
  ELSE <<updateDisplay(stored)>>

\* ... and what follows it once the flashing or the delay is over
RelockOut(v, stored) ==
  IF v = OLED THEN <<setLockedLEDOn, setUnlockedLEDOff>> ELSE <<updateDisplay(stored)>>

\* P1OUT after one call
LedEffect(p, c) ==
  CASE c.call = "setLockedLEDOn" -> p \cup {"BIT4"}
    [] c.call = "setLockedLEDOff" -> p \ {"BIT4"}
    [] c.call = "setUnlockedLEDOn" -> p \cup {"BIT5"}
    [] c.call = "setUnlockedLEDOff" -> p \ {"BIT5"}
    [] OTHER -> p

\* P1OUT after a sequence of calls
RECURSIVE LedsAfter(_, _)
LedsAfter(p, calls) ==
  IF calls = << >> THEN p ELSE LedsAfter(LedEffect(p, Head(calls)), Tail(calls))

\* the toggle applied to BIT5, the unlocked LED
ToggleUnlocked(p) == IF "BIT5" \in p THEN p \ {"BIT5"} ELSE p \cup {"BIT5"}

\* P1OUT ^= BIT4
ToggleLocked(p) == IF "BIT4" \in p THEN p \ {"BIT4"} ELSE p \cup {"BIT4"}

\* the calls are made: recorded, and the indicator bits follow
Emit(calls) ==
  /\ out' = out \o calls
  /\ P1OUT' = LedsAfter(P1OUT, calls)

(***************************************************************************)
(* The body of if (key) { ... }.                                           *)
(***************************************************************************)
\* <= for <
CanAppendLoose(idx) == idx <= MAX_PASSWORD_LENGTH

\* index < MAX_PASSWORD_LENGTH
CanAppend(idx) == idx < MAX_PASSWORD_LENGTH

\* <= for ==
CanConfirmLoose(idx) == idx <= MAX_PASSWORD_LENGTH

\* index == MAX_PASSWORD_LENGTH
CanConfirm(idx) == idx = MAX_PASSWORD_LENGTH

\* the result of strcmp taken as a truth value: if (strcmp(...))
PinMatchesInverted(stored, entered) == ~StrEqual(stored, entered)

\* strcmp(storedPassword, enteredPassword) == 0
PinMatches(stored, entered) == StrEqual(stored, entered)

\* the index incremented before the key is stored: enteredPassword[++index] = key
AppendKeyPreIncrement(entered, idx, k) ==
  [c \in Cells |-> IF c = idx + 1 THEN k ELSE IF c = idx + 2 THEN NUL ELSE entered[c]]

\* enteredPassword[index++] = key; enteredPassword[index] = '\0';
AppendKey(entered, idx, k) ==
  [c \in Cells |-> IF c = idx THEN k ELSE IF c = idx + 1 THEN NUL ELSE entered[c]]

\* the keys that start an entry and that confirm one
IsSetKey(k) == k = "A"
IsSaveKey(k) == k = "B"

\* the test of the key left out of mode 2
IsEnterKeyAny(k) == TRUE

IsEnterKey(k) == k = "C"

\* the test of mode 1 copied into mode 3 and kept
IsCheckKeyOrSave(k) == k = "D" \/ k = "B"

IsCheckKey(k) == k = "D"

\* a key the mode has no use for: nothing is done
NoEffect ==
  /\ pc' = "poll"
  /\ UNCHANGED <<ctl, P1OUT, out, flash>>

\* index = 0; memset(...); entry begins in mode m
\* the entry is begun without the reset of index and the memset
BeginEntryKeepBuffer(m, calls) ==
  /\ mode' = m
  /\ Emit(calls)
  /\ pc' = "poll"
  /\ UNCHANGED <<index, enteredPassword, storedPassword, flash>>

BeginEntry(m, calls) ==
  /\ mode' = m
  /\ index' = 0
  /\ enteredPassword' = Zeroed
  /\ Emit(calls)
  /\ pc' = "poll"
  /\ UNCHANGED <<storedPassword, flash>>

\* the digit branch of modes 1 and 3
DigitEntry ==
  IF CanAppend(index)
  THEN /\ enteredPassword' = AppendKey(enteredPassword, index, key)
       /\ index' = (index + 1) % 256
       /\ Emit(DigitOut(variant, enteredPassword'))
       /\ pc' = "poll"
       /\ UNCHANGED <<mode, storedPassword, flash>>
  ELSE NoEffect

\* if (mode == 0)
HandleUnlocked ==
  /\ mode = 0
  /\ IF IsSetKey(key) THEN BeginEntry(1, EnterSetOut(variant)) ELSE NoEffect

\* else if (mode == 1)
HandleSetPin ==
  /\ mode = 1
  /\ IF IsDigit(key) THEN DigitEntry
     ELSE IF IsSaveKey(key) /\ CanConfirm(index)
     THEN /\ storedPassword' = strcpy(storedPassword, enteredPassword)
          /\ mode' = 2
          /\ Emit(LockOut(variant, storedPassword'))
          /\ pc' = "poll"
          /\ UNCHANGED <<index, enteredPassword, flash>>
     ELSE NoEffect

\* else if (mode == 2)
HandleLocked ==
  /\ mode = 2
  /\ IF IsEnterKey(key) THEN BeginEntry(3, EnterPinOut(variant)) ELSE NoEffect

\* else if (mode == 3)
HandleEnterPin ==
  /\ mode = 3
  /\ IF IsDigit(key) THEN DigitEntry
     ELSE IF IsCheckKey(key) /\ CanConfirm(index)
     THEN IF PinMatches(storedPassword, enteredPassword)
          THEN /\ mode' = 0
               /\ Emit(UnlockOut(variant, storedPassword))
               /\ pc' = "poll"
               /\ UNCHANGED <<index, enteredPassword, storedPassword, flash>>
          ELSE /\ Emit(FailOut(variant))
               /\ pc' = "fail"
               /\ i' = 0
               /\ phase' = 0
               /\ UNCHANGED ctl
     ELSE NoEffect

\* one key event through the body of the loop
Handle ==
  /\ pc = "handle"
  /\ HandleUnlocked \/ HandleSetPin \/ HandleLocked \/ HandleEnterPin
  /\ scen' = IF scen >= 0 /\ scen < Len(Scenario) /\ key = Scenario[scen + 1]
             THEN scen + 1 ELSE -1
  /\ fed' = IF mode' # mode THEN << >>
            ELSE IF mode \in {1, 3} /\ IsDigit(key) /\ Len(fed) < MAX_PASSWORD_LENGTH
            THEN Append(fed, key) ELSE fed
  /\ UNCHANGED <<variant, scanner, key, env>>

\* the loop of flashLockedLED without its i++
FlashToggleStuck ==
  /\ pc = "fail"
  /\ variant = OLED
  /\ i < FlashCycles
  /\ P1OUT' = ToggleLocked(P1OUT)
  /\ phase' = 1 - phase
  /\ UNCHANGED <<variant, ctl, scanner, key, pc, out, env, scen, fed, i>>

\* flashLockedLED(): one P1OUT ^= BIT4 and its delay
FlashToggle ==
  /\ pc = "fail"
  /\ variant = OLED
  /\ i < FlashCycles
  /\ P1OUT' = ToggleLocked(P1OUT)
  /\ phase' = 1 - phase
  /\ i' = IF phase = 1 THEN i + 1 ELSE i
  /\ UNCHANGED <<variant, ctl, scanner, key, pc, out, env, scen, fed>>

\* after flashLockedLED() or displayError() returned: mode = 2 and the locked output
Relock ==
  /\ pc = "fail"
  /\ variant = SEVENSEG \/ i = FlashCycles
  /\ mode' = 2
  /\ Emit(RelockOut(variant, storedPassword))
  /\ pc' = "poll"
  /\ i' = 0
  /\ phase' = 0
  /\ fed' = << >>
  /\ UNCHANGED <<variant, index, enteredPassword, storedPassword, scanner, key, env, scen>>

(***************************************************************************)
(* Specifications.                                                         *)
(***************************************************************************)
\* the program: the scanner samples the lines, any pressable key at any poll
Next == Poll \/ Handle \/ FlashToggle \/ Relock
Spec == Init /\ [][Next]_vars

\* the controller alone, fed any key event at any time
NextController == Deliver \/ Handle \/ FlashToggle \/ Relock
SpecController == Init /\ [][NextController]_vars

\* the program with a user who presses the keys of Scenario in order
SpecScenario == InitScenario /\ [][Next]_vars

\* the scanner alone, over every value of the input register
SpecScanner == Init /\ [][PollScan]_vars

(***************************************************************************)
(* Properties.                                                             *)
(***************************************************************************)
\* the step is the handling of key k in mode m
Handling(m, k) == pc = "handle" /\ mode = m /\ key = k

\* the controller's data and the indicators are as before and nothing was output
Inert ==
  /\ UNCHANGED <<mode, index, enteredPassword, storedPassword, P1OUT>>
  /\ out' = << >>
  /\ pc' = "poll"

\* the failure display of a wrong PIN
IsFailureDisplay(c) ==
  \/ c.call = "displayError"
  \/ c.call = "displayMessage" /\ c.text = MsgWrongPin \o <<" ">>

\* the locked indication that follows it: the locked LED, the seven-segment render
IsLockedIndication(c) ==
  IF variant = OLED THEN c.call = "setLockedLEDOn" ELSE c.call = "updateDisplay"

FailureAt(o) == {n \in 1..Len(o) : IsFailureDisplay(o[n])}
LockedAt(o) == {n \in 1..Len(o) : IsLockedIndication(o[n])}

\* C1: the mode becomes Unlocked only by key D in EnteringPin with a buffer of
\* length 4 equal to StoredPin; no other key in any mode produces Unlocked.
C1_UnlockOnlyByMatchingPin ==
  [][(mode' = 0 /\ mode # 0) =>
       /\ Handling(3, "D")
       /\ index = 4
       /\ Len(EntryBuffer) = 4
       /\ EntryBuffer = StoredPin]_vars

\* a state just after an unlock: D was handled, the buffer is the stored PIN
C1_Witness ==
  /\ pc = "poll" /\ mode = 0 /\ key = "D"
  /\ index = 4 /\ EntryBuffer = StoredPin
  /\ out # << >>

\* C2: in EnteringPin with 4 digits, D leads to Unlocked when the buffer equals
\* StoredPin; otherwise it leads to Locked with exactly one failure display, made
\* before the locked indication, nothing being polled in between; StoredPin is
\* unchanged in both cases.
C2_ConfirmEnteredPin ==
  /\ [](pc = "fail" => ENABLED (FlashToggle \/ Relock))
  /\ [][/\ (Handling(3, "D") /\ index = 4 /\ EntryBuffer = StoredPin) =>
             /\ mode' = 0 /\ pc' = "poll"
             /\ FailureAt(out') = {}
             /\ storedPassword' = storedPassword
        /\ (Handling(3, "D") /\ index = 4 /\ EntryBuffer # StoredPin) =>
             /\ pc' = "fail" /\ mode' = 3
             /\ Cardinality(FailureAt(out')) = 1
             /\ LockedAt(out') = {}
             /\ storedPassword' = storedPassword
        /\ (pc = "fail" /\ pc' = "fail") =>
             /\ Len(out') = Len(out)
             /\ UNCHANGED <<mode, storedPassword, key>>
        /\ (pc = "fail" /\ pc' # "fail") =>
             /\ pc' = "poll" /\ mode' = 2
             /\ storedPassword' = storedPassword
             /\ Cardinality(FailureAt(out')) = 1
             /\ LockedAt(out') # {}
             /\ \A f \in FailureAt(out'), l \in LockedAt(out') : f < l]_vars

\* a state just after a wrong PIN was handled to the end
C2_Witness ==
  /\ pc = "poll" /\ mode = 2 /\ key = "D"
  /\ index = 4 /\ EntryBuffer # StoredPin
  /\ FailureAt(out) # {} /\ LockedAt(out) # {}

\* C3: in SettingPin with 4 digits, B leads to Locked and StoredPin is exactly
\* those 4 digits in order, whatever it was before.
C3_SavePin ==
  [][(Handling(1, "B") /\ index = 4) =>
       /\ mode' = 2
       /\ StoredPin' = EntryBuffer
       /\ Len(StoredPin') = 4]_vars

\* a state just after a PIN other than the default was saved
C3_Witness ==
  /\ pc = "poll" /\ mode = 2 /\ key = "B"
  /\ StoredPin = EntryBuffer
  /\ storedPassword # DefaultPassword
  /\ out # << >>

\* C4: StoredPin is always exactly 4 decimal digits, and it changes only by key B
\* in SettingPin with a buffer of length 4.
C4_StoredPin ==
  /\ [](/\ Len(StoredPin) = 4
        /\ \A n \in 1..Len(StoredPin) : StoredPin[n] \in Digits)
  /\ [][storedPassword' # storedPassword => (Handling(1, "B") /\ index = 4)]_vars

\* unlocked again with a PIN that is not the default: the PIN that was set went
\* through the confirmations with D
C4_Witness ==
  /\ mode = 0 /\ key = "D" /\ pc = "poll"
  /\ storedPassword # DefaultPassword

\* C5: during an entry EntryBuffer is the first min(n, 4) of the n digit keys
\* handled since the buffer was cleared; its length never exceeds 4; a digit key
\* handled at length 4 changes nothing.
C5_EntryBuffer ==
  /\ [](/\ index <= 4
        /\ mode \in {1, 3} => (EntryBuffer = fed /\ CStr(enteredPassword) = fed))
  /\ [][(pc = "handle" /\ mode \in {1, 3} /\ key \in Digits /\ index = 4) => Inert]_vars

\* a digit key was handled with the buffer full
C5_Witness ==
  /\ pc = "poll" /\ mode \in {1, 3} /\ key \in Digits
  /\ index = 4 /\ EntryBuffer = fed
  /\ key # enteredPassword[3]
  /\ out = << >>

\* C6: B in SettingPin and D in EnteringPin with fewer than 4 digits change
\* neither Mode nor StoredPin nor EntryBuffer and output nothing.
C6_ShortConfirm ==
  [][((Handling(1, "B") \/ Handling(3, "D")) /\ index < 4) => Inert]_vars

\* D was handled in EnteringPin with 1 to 3 digits entered
C6_Witness ==
  /\ pc = "poll" /\ mode = 3 /\ key = "D"
  /\ index \in 1..3
  /\ out = << >>

\* the rows of the transition table
RowMatches(m, k, len) ==
  \/ m = 0 /\ k = "A"
  \/ m = 1 /\ k \in Digits /\ len < 4
  \/ m = 1 /\ k = "B" /\ len = 4
  \/ m = 2 /\ k = "C"
  \/ m = 3 /\ k \in Digits /\ len < 4
  \/ m = 3 /\ k = "D" /\ len = 4

\* C7: a key that matches no row of the transition table for the current mode
\* changes neither Mode nor StoredPin nor EntryBuffer and outputs nothing.
C7_UnlistedKeys ==
  [][(pc = "handle" /\ ~RowMatches(mode, key, Len(EntryBuffer))) => Inert]_vars

\* '*' or '#' was handled in the middle of an entry
C7_Witness ==
  /\ pc = "poll" /\ mode \in {1, 3} /\ key \in {"*", "#"}
  /\ index = 2
  /\ out = << >>

\* C10: the mode is one of the four, and it changes only along the five
\* transitions of the table.
C10_ModeTransitions ==
  /\ [](mode \in 0..3)
  /\ [][mode' # mode =>
          \/ mode = 0 /\ mode' = 1 /\ Handling(0, "A")
          \/ mode = 1 /\ mode' = 2 /\ Handling(1, "B") /\ index = 4
          \/ mode = 2 /\ mode' = 3 /\ Handling(2, "C")
          \/ mode = 3 /\ mode' = 0 /\ Handling(3, "D") /\ index = 4
               /\ EntryBuffer = StoredPin
          \/ mode = 3 /\ mode' = 2 /\ pc = "fail" /\ key = "D" /\ index = 4
               /\ EntryBuffer # StoredPin]_vars

\* SettingPin entered a second time, after a whole round through the modes
C10_Witness ==
  /\ mode = 1 /\ index > 0
  /\ storedPassword # DefaultPassword

\* C8: the scanner never reports the same key on two reporting polls in a row
\* unless a poll returned no key between them; a code held constant from one
\* poll to the next yields no second key event.
C8_NoRepeatedReport ==
  [][/\ (pc = "poll" /\ pc' = "handle" /\ key' = reported) => gap
     /\ (pc = "poll" /\ bcd' = bcd) => (pc' = "poll" /\ key' = NUL)]_vars

\* the same key reported a second time, polls without a key in between
C8_Witness ==
  /\ pc = "handle" /\ again
  /\ key = reported /\ key # NUL

\* C9: the key events of Scenario, fed from the initial state, take the system
\* through the states of the scenario, and the scanner of main.c delivers each of
\* them when the user presses its key after the ones before it were delivered.
C9_Scenario ==
  /\ [](/\ scen = 1 => (mode = 1 /\ EntryBuffer = << >>)
        /\ scen = 5 => (mode = 1 /\ EntryBuffer = <<"1", "2", "3", "4">>)
        /\ scen = 6 => (mode = 2 /\ StoredPin = <<"1", "2", "3", "4">>)
        /\ scen = 7 => (mode = 3 /\ EntryBuffer = << >>)
        /\ scen = 11 => (mode = 3 /\ EntryBuffer = <<"9", "9", "9", "9">>)
        /\ scen = 12 => IF pc = "fail" THEN FailureAt(out) # {} ELSE mode = 2
        /\ scen = 18 => mode = 0)
  /\ [][(variant = OLED /\ pc = "poll" /\ scen >= 0 /\ press = scen
           /\ press' = scen + 1) =>
          (pc' = "handle" /\ key' = Scenario[scen + 1])]_vars

\* C11: every transition into SettingPin (key A in Unlocked) and into EnteringPin
\* (key C in Locked) clears the entry buffer to length 0, so that the digits of
\* an earlier PIN-set or attempt are not part of the next entry: the buffer then
\* holds exactly the digits appended since.
C11_EntryCleared ==
  /\ [](mode \in {1, 3} => EntryBuffer = fed)
  /\ [][/\ (Handling(0, "A") \/ Handling(2, "C")) =>
             /\ mode' = IF mode = 0 THEN 1 ELSE 3
             /\ index' = 0
             /\ EntryBuffer' = << >>
             /\ CStr(enteredPassword') = << >>
        /\ (mode' # mode /\ mode' \in {1, 3}) =>
             /\ Handling(0, "A") \/ Handling(2, "C")
             /\ Len(EntryBuffer') = 0]_vars

\* EnteringPin was just entered after a PIN was set: the buffer that held the
\* four digits of that PIN is empty again
C11_Witness ==
  /\ pc = "poll" /\ mode = 3 /\ key = "C"
  /\ index = 0 /\ enteredPassword = Zeroed
  /\ storedPassword # DefaultPassword
  /\ out # << >>

Effective == mode' # mode \/ index' # index \/ pc' = "fail"

\* the call renders text or digits on the display
IsRender(c) ==
  c.call \in {"displayMessage", "updateDisplay", "clearDisplay", "displayError"}

RendersAt(o) == {n \in 1..Len(o) : IsRender(o[n])}

\* C13 as stated: a handling that takes effect issues exactly one output call,
\* the one of a mismatching PIN exactly two, the failure and then the locked
\* status; no handling issues more.
C13_OneCallPerTransition ==
  [][/\ (pc = "handle" /\ pc' = "poll") =>
          Len(out') = IF Effective THEN 1 ELSE 0
     /\ (pc = "handle" /\ pc' = "fail") => Len(out') = 1
     /\ (pc = "fail" /\ pc' = "fail") => out' = out
     /\ (pc = "fail" /\ pc' = "poll") =>
          /\ Len(out') = 2
          /\ IsFailureDisplay(out'[1])]_vars

\* C13: a handling that takes effect issues exactly one render call, the first
\* of its calls.  In the seven-segment build that is its only call, and the
\* mismatching PIN issues two, displayError and then the render of the locked
\* display.  In the OLED build a change of mode adds two indicator calls after
\* the message, and the mismatching PIN issues four calls, the failure message,
\* flashLockedLED, setLockedLEDOn and setUnlockedLEDOff, with no second message.
\* A handling without effect issues no call.
C13_CallsPerTransition ==
  [][/\ (pc = "handle" /\ pc' = "poll") =>
          IF Effective
          THEN /\ RendersAt(out') = {1}
               /\ Len(out') = IF variant = OLED /\ mode' # mode THEN 3 ELSE 1
               /\ \A n \in 2..Len(out') : out'[n].call \in
                    {"setLockedLEDOn", "setLockedLEDOff",
                     "setUnlockedLEDOn", "setUnlockedLEDOff"}
          ELSE out' = << >>
     /\ (pc = "handle" /\ pc' = "fail") =>
          out' = IF variant = OLED
                 THEN <<displayMessage(MsgWrongPin), flashLockedLED>>
                 ELSE <<displayError>>
     /\ (pc = "fail" /\ pc' = "fail") => out' = out
     /\ (pc = "fail" /\ pc' = "poll") =>
          out' = IF variant = OLED
                 THEN <<displayMessage(MsgWrongPin), flashLockedLED,
                        setLockedLEDOn, setUnlockedLEDOff>>
                 ELSE <<displayError, updateDisplay(storedPassword)>>]_vars

\* the OLED build back in Locked after a wrong PIN, four calls issued
C13_Witness ==
  /\ variant = OLED /\ pc = "poll" /\ mode = 2 /\ key = "D"
  /\ Len(out) = 4 /\ RendersAt(out) = {1}

\* a stored PIN of four times the digit d
UniformPin(d) == [c \in Cells |-> IF c < MAX_PASSWORD_LENGTH THEN d ELSE NUL]

\* C14: the output issued on entering Locked, after B in SettingPin and after a
\* mismatching D, is a fixed pattern: it is the output the same step issues with
\* any other stored PIN, so two runs that differ only in the PIN show the same
\* locked output.
C14_LockedOutputFixed ==
  [][/\ (Handling(1, "B") /\ mode' = 2) =>
          \A d \in Digits : out' = LockOut(variant, UniformPin(d))
     /\ (pc = "fail" /\ mode' = 2) =>
          \A d \in Digits : out' = out \o RelockOut(variant, UniformPin(d))]_vars

\* the state main() is in when it enters its loop: nothing sampled yet
AtStart == bcd = NoSample /\ key = NUL /\ pc = "poll"

\* the call puts the digits of pin on the display
ShowsPin(c, pin) ==
  \/ c.call = "updateDisplay" /\ c.P6OUT = SevenSegDigits(pin)
  \/ c.call = "displayMessage" /\ c.text = CStr(pin) \o <<" ">>

\* the scanner and the controller as constructed
StartState ==
  /\ mode = 0
  /\ StoredPin = <<"0", "0", "0", "0">>
  /\ EntryBuffer = << >> /\ index = 0
  /\ lastKey = NUL /\ reported = NUL

\* C15 as stated: initially the mode is Unlocked, StoredPin is "0000", the entry
\* buffer is empty, the scanner has no last reported key, and the first output
\* issued shows the stored PIN.
C15_InitialShowsPin ==
  AtStart => (StartState /\ out # << >> /\ ShowsPin(out[1], storedPassword))

\* C15: initially the mode is Unlocked, StoredPin is "0000", the entry buffer is
\* empty and the scanner has no last reported key; the first output issued shows
\* the stored PIN in the seven-segment build, and in the OLED build it is the
\* Unlocked message followed by locked LED off, unlocked LED on.
C15_InitialState ==
  AtStart =>
    /\ StartState
    /\ IF variant = OLED
       THEN /\ out = <<displayMessage(MsgUnlocked), setLockedLEDOff, setUnlockedLEDOn>>
            /\ P1OUT = {"BIT5"}
       ELSE out = <<updateDisplay(storedPassword)>>

\* the seven-segment build before its first poll, 0 0 0 0 on the display
C15_Witness ==
  /\ AtStart /\ variant = SEVENSEG
  /\ out = <<[call |-> "updateDisplay", P6OUT |-> <<0, 0, 0, 0>>]>>

\* C16: the decoded value is a 4-bit code: in both builds, for every value of the
\* input register the code switched on lies in 0..15 and the key returned is the
\* one the table gives for it, and each of the 16 keys is returned for at least
\* one value of the register.
C16_FourBitCode ==
  bcd # NoSample =>
    /\ bcd \in 0..15
    /\ key \in {NUL, Decode(bcd)}
    /\ \A raw \in RawValues :
         /\ ReadBcd(raw, variant) \in 0..15
         /\ Decode(ReadBcd(raw, variant)) \in Keys
         /\ getKeypadInput(raw, NUL, variant).ret = Decode(ReadBcd(raw, variant))
    /\ \A k \in Keys :
         \E raw \in RawValues : getKeypadInput(raw, NUL, variant).ret = k

\* C17: a poll that samples a code outside the lookup table returns no key, and
\* nothing is delivered to the controller: the mode, the stored PIN and the
\* entry buffer are as before, nothing is rendered, and the loop polls again.
C17_UnmappedCode ==
  [][(pc = "poll" /\ bcd' \notin 0..15) =>
       /\ key' = NUL
       /\ pc' = "poll"
       /\ UNCHANGED <<mode, index, enteredPassword, storedPassword, P1OUT>>
       /\ StoredPin' = StoredPin /\ EntryBuffer' = EntryBuffer
       /\ out' = << >>]_vars

\* a code outside the table was just sampled, after a key had been reported
C17_Witness ==
  /\ pc = "poll" /\ bcd # NoSample /\ bcd \notin 0..15
  /\ key = NUL /\ lastKey = NUL
  /\ reported # NUL

\* the characters a render call shows: the text of a message, the four digit
\* values of the seven-segment display as characters
Shown(c) ==
  IF c.call = "displayMessage"
  THEN c.text
  ELSE [n \in 1..4 |-> <<"0", "1", "2", "3", "4", "5", "6", "7", "8", "9">>[c.P6OUT[n] + 1]]

\* the buffer followed by placeholder digits up to four characters
Padded(buf) == [n \in 1..4 |-> IF n <= Len(buf) THEN buf[n] ELSE "0"]

\* the step appends a digit to the entry buffer
AppendsDigit == pc = "handle" /\ mode \in {1, 3} /\ index' = index + 1

\* C18 as stated: whenever the entry buffer of length n is rendered during digit
\* entry, the output is exactly 4 characters, the n digits followed by 4 - n
\* placeholder digits '0'.
C18_PaddedRender ==
  [][AppendsDigit =>
       /\ Len(out') = 1 /\ IsRender(out'[1])
       /\ Len(Shown(out'[1])) = 4
       /\ Shown(out'[1]) = Padded(EntryBuffer')]_vars

\* C18: whenever the entry buffer of length n is rendered during digit entry,
\* the seven-segment build shows exactly 4 digits, the n digits followed by
\* 4 - n digits 0; the OLED build prints the n digits followed by one space,
\* without placeholders.
C18_RenderOfBuffer ==
  [][AppendsDigit =>
       /\ Len(out') = 1
       /\ Len(EntryBuffer') = index'
       /\ IF variant = OLED
          THEN /\ out'[1].call = "displayMessage"
               /\ Shown(out'[1]) = EntryBuffer' \o <<" ">>
          ELSE /\ out'[1].call = "updateDisplay"
               /\ Len(Shown(out'[1])) = 4
               /\ Shown(out'[1]) = Padded(EntryBuffer')]_vars

\* the seven-segment build has just rendered a buffer of two different digits
C18_Witness ==
  /\ variant = SEVENSEG /\ pc = "poll" /\ mode \in {1, 3}
  /\ index = 2 /\ EntryBuffer[1] # EntryBuffer[2]
  /\ out = <<updateDisplay(enteredPassword)>>
  /\ Shown(out[1]) = EntryBuffer \o <<"0", "0">>

\* the toggles of P1OUT made so far by flashLockedLED
Toggles == 2 * i + phase

\* the number of steps a handling has left at most; 0 at the poll
StepsLeft ==
  CASE pc = "handle" -> 2 * FlashCycles + 2
    [] pc = "fail" -> 2 * FlashCycles + 1 - Toggles
    [] OTHER -> 0

\* C19: every handling of a key event terminates, also that of a wrong PIN with
\* its failure indication: a handling that was begun can always take its next
\* step, and every step brings it nearer to the poll, which it reaches after at
\* most 22 steps; flashLockedLED makes exactly 10 on/off cycles, 20 toggles,
\* and returns; between the start of the failure indication and the return to
\* Locked no key is polled or handled; after every handling the loop is at its
\* poll again and can take the next key.
C19_HandlingTerminates ==
  /\ [](pc # "poll" => ENABLED (Handle \/ FlashToggle \/ Relock))
  /\ [](StepsLeft \in 0..(2 * FlashCycles + 2) /\ (StepsLeft = 0 <=> pc = "poll"))
  /\ [][pc # "poll" => StepsLeft' < StepsLeft]_vars
  /\ [](pc = "poll" => ENABLED Deliver)
  /\ [](pc # "poll" => ~ENABLED Deliver)
  /\ [][/\ (pc = "handle" /\ pc' = "fail") => Toggles' = 0
        /\ (pc = "fail" /\ pc' = "fail") =>
             /\ variant = OLED
             /\ Toggles' = Toggles + 1
             /\ ("BIT4" \in P1OUT') # ("BIT4" \in P1OUT)
             /\ UNCHANGED <<ctl, scanner, key, out>>
        /\ (pc = "fail" /\ pc' # "fail") =>
             /\ pc' = "poll" /\ mode' = 2
             /\ variant = OLED => Toggles = 2 * FlashCycles
             /\ UNCHANGED <<scanner, key>>]_vars

\* flashLockedLED has made its 20 toggles and is about to return
C19_Witness ==
  /\ variant = OLED /\ pc = "fail" /\ key = "D"
  /\ i = FlashCycles /\ phase = 0 /\ Toggles = 20

LockedLedOn == "BIT4" \in P1OUT
UnlockedLedOn == "BIT5" \in P1OUT

\* C20: in the OLED build, at every poll the unlocked LED is on exactly in
\* Unlocked and the locked LED is on exactly in Locked and EnteringPin, so both
\* are off in SettingPin; the two are never on together, also not at any step
\* of flashLockedLED, which toggles the locked LED only and leaves it as it
\* found it: on, as at the start of each of its iterations.
C20_LedsAgreeWithMode ==
  /\ []((variant = OLED /\ pc # "fail") =>
          /\ UnlockedLedOn <=> mode = 0
          /\ LockedLedOn <=> mode \in {2, 3}
          /\ mode = 1 => P1OUT = {})
  /\ [](variant = OLED => ~(LockedLedOn /\ UnlockedLedOn))
  /\ []((variant = OLED /\ pc = "fail") =>
          /\ ~UnlockedLedOn
          /\ LockedLedOn <=> phase = 0)
  /\ [][(variant = OLED /\ pc = "fail" /\ pc' = "poll") =>
          (phase = 0 /\ LockedLedOn /\ LockedLedOn' /\ ~UnlockedLedOn')]_vars

\* in the middle of flashLockedLED, the locked LED toggled off
C20_Witness ==
  /\ variant = OLED /\ pc = "fail" /\ mode = 3
  /\ i = 5 /\ phase = 1
  /\ P1OUT = {}

\* C21: in every reachable state index is in 0..4, the bytes of enteredPassword
\* below index are decimal digits and the byte at index is the terminator; so
\* every append writes its digit and its terminator inside the 5 bytes, index
\* goes up by one without wrapping and never beyond MAX_PASSWORD_LENGTH, and
\* the strcpy into storedPassword copies at most 5 bytes.
C21_IndexInBounds ==
  /\ [](/\ index \in 0..MAX_PASSWORD_LENGTH
        /\ \A c \in 0..(index - 1) : IsDigit(enteredPassword[c])
        /\ enteredPassword[index] = NUL
        /\ strlen(enteredPassword) = index
        /\ strlen(storedPassword) <= MAX_PASSWORD_LENGTH)
  /\ [][/\ index' # index =>
             \/ index' = 0
             \/ /\ index' = index + 1
                /\ index \in Cells /\ index + 1 \in Cells
                /\ enteredPassword'[index] = key /\ enteredPassword'[index + 1] = NUL
        /\ storedPassword' # storedPassword =>
             /\ Handling(1, "B")
             /\ strlen(enteredPassword) + 1 <= MAX_PASSWORD_LENGTH + 1]_vars

\* a fifth digit was just dropped: the buffer is full, its terminator in the
\* last byte
C21_Witness ==
  /\ pc = "poll" /\ mode \in {1, 3} /\ IsDigit(key)
  /\ index = MAX_PASSWORD_LENGTH /\ enteredPassword[MAX_PASSWORD_LENGTH] = NUL
  /\ out = << >>

\* every value of the input register decodes to a key in the OLED build
OledDecodesAll == \A raw \in RawValues : Decode(ReadBcd(raw, OLED)) \in Keys

\* C22: in the OLED build every value of the input register decodes to a key,
\* so a poll returns no key exactly when the key decoded equals lastKey; any
\* two key events delivered one after the other are different keys, and a
\* digit equal to the last digit of the entry buffer is delivered for appending
\* only after a different key event was delivered and handled in between.
C22_ConsecutiveEventsDiffer ==
  /\ []((variant = OLED /\ bcd = NoSample) => OledDecodesAll)
  /\ []((variant = OLED /\ reported # NUL) => lastKey = reported)
  /\ [][(variant = OLED /\ pc = "poll") =>
          /\ Decode(bcd') # NUL
          /\ key' = NUL <=> Decode(bcd') = lastKey
          /\ pc' = "handle" => (key' # reported /\ key' = Decode(bcd'))
          /\ (/\ pc' = "handle" /\ mode \in {1, 3}
              /\ index \in 1..(MAX_PASSWORD_LENGTH - 1)
              /\ key' = enteredPassword[index - 1]) =>
               (reported # NUL /\ reported # enteredPassword[index - 1])]_vars

\* the OLED build has appended the same digit twice in a row, a key that is
\* not a digit having been delivered between the two
C22_Witness ==
  /\ variant = OLED /\ pc = "poll" /\ mode \in {1, 3}
  /\ index = 2 /\ enteredPassword[0] = enteredPassword[1]
  /\ key = enteredPassword[1] /\ reported = key
  /\ fed = EntryBuffer

====
